---- MODULE Spec2Model ----
(***************************************************************************)
(* A model of nototools/shape_diff.py: ShapeDiffFinder and the stats        *)
(* dictionary it shares with its caller.                                    *)
(*                                                                          *)
(* The program is single-threaded, so every method call is one atomic       *)
(* action.  A driver constructs one ShapeDiffFinder per font pair, always   *)
(* handing it the same stats dictionary, and calls its methods; the model   *)
(* keeps the attributes of the live finder and the contents of stats.       *)
(* What a call reads from outside the program (glyph areas, reverse cmaps,  *)
(* shaping inputs, what the external tools did) is drawn from small sets    *)
(* when the call happens and kept in `last`, the record of the latest call, *)
(* together with the exception that ended it and the stats it started from. *)
(*                                                                          *)
(* Dictionaries are sets of <<key, value>> pairs; an optional value (the    *)
(* result of dict.get) is the empty set or a singleton.  Lists are          *)
(* sequences.  The iteration order of a set or dict is an input.            *)
(***************************************************************************)
EXTENDS Integers, Sequences, FiniteSets, TLC

VARIABLES
    finder,            \* how many ShapeDiffFinder objects were constructed; the live one
    fonts,             \* self.fonts: the two fonts' glyph orders, as sets of names
    ratio_diffs,       \* self.ratio_diffs
    has_names,         \* hasattr(self, 'names')
    names,             \* self.names
    has_reverse_cmap,  \* hasattr(self, 'reverse_cmap')
    reverse_cmap,      \* self.reverse_cmap
    stats,             \* the shared stats dictionary
    ncalls,            \* method calls made in this session
    last               \* the latest call: what it read, how it ended

vars == <<finder, fonts, ratio_diffs, has_names, names, has_reverse_cmap,
          reverse_cmap, stats, ncalls, last>>

----------------------------------------------------------------------------
(* Bounds of the model. *)

MaxFinders == 2
MaxCalls == 2
MaxCodepoint == 2
MaxArea == 1
MaxMetric == 1
MaxAbsArea == 3
MaxLines == 2
MaxRecords == 2
MaxSeverity == 2

Names == {"a", "b"}
Codepoints == 1..MaxCodepoint
Areas == 0..MaxArea
Metrics == 0..MaxMetric

----------------------------------------------------------------------------
(* Helpers for Python's containers. *)

\* every order in which the elements of S can be iterated
Orders(S) ==
    {s \in [1..Cardinality(S) -> S] :
        \A i, j \in 1..Cardinality(S) : i # j => s[i] # s[j]}

\* dict.get(k): the value as a singleton, or {} for None
Get(d, k) == {p[2] : p \in {q \in d : q[1] = k}}

Keys(d) == {p[1] : p \in d}

\* d[k] for a key that is present
Lookup(d, k) == (CHOOSE p \in d : p[1] = k)[2]

\* the dicts with keys in N and values in V
Dicts(N, V) ==
    UNION {{{<<n, f[n]>> : n \in D} : f \in [D -> V]} : D \in SUBSET N}

\* the dicts whose keys are exactly N
TotalDicts(N, V) == {{<<n, f[n]>> : n \in N} : f \in [N -> V]}

Range(s) == {s[i] : i \in 1..Len(s)}

Count(s, x) == Cardinality({i \in 1..Len(s) : s[i] = x})

IsPrefix(s, t) == Len(s) <= Len(t) /\ SubSeq(t, 1, Len(s)) = s

\* what list t holds after list s, when s is a prefix of t
Suffix(s, t) == SubSeq(t, Len(s) + 1, Len(t))

----------------------------------------------------------------------------
(* The stats dictionary and the record of a call. *)

EmptyStats ==
    [compared |-> <<>>, untested |-> <<>>, unmatched |-> <<>>,
     unicode_mismatch |-> <<>>]

LogNames == {"compared", "untested", "unmatched", "unicode_mismatch"}

TmpPaths == {"a_png", "b_png", "cmp_png", "diffs_filename"}

NoCall ==
    [op |-> "none",            \* the method called
     exc |-> "None",           \* the exception that ended it, or "None"
     before |-> EmptyStats,    \* stats when the call started
     built_names |-> FALSE,    \* build_names got past its hasattr guard
     built_cmap |-> FALSE,     \* build_reverse_cmap got past its hasattr guard
     cmaps |-> <<{}, {}>>,     \* what hb_input.build_reverse_cmap returned per font
     areas |-> {},             \* name -> <<area_a, area_b>> as drawn by the pens
     glyphs |-> {},            \* per name: shaping input and tool outcome
     order |-> <<>>,           \* ordered_names of find_rendered_diffs
     log |-> <<>>,             \* the lines of diffs_filename when the loop ended
     invoked |-> {},           \* names the shaper and comparator were run for
     tmp |-> {},               \* temporary files still on disk when the call ended
     args |-> <<>>,            \* the arguments of a call of a pure function
     ret |-> <<>>]             \* the value returned

\* basename of file_a: the driver's k-th pair is font k
basepath == finder

\* the live finder and the stats it writes to, as one value the methods transform
Self ==
    [has_names |-> has_names, names |-> names,
     has_reverse_cmap |-> has_reverse_cmap, reverse_cmap |-> reverse_cmap,
     stats |-> stats, exc |-> "None"]

Commit(s) ==
    /\ has_names' = s.has_names
    /\ names' = s.names
    /\ has_reverse_cmap' = s.has_reverse_cmap
    /\ reverse_cmap' = s.reverse_cmap
    /\ stats' = s.stats

----------------------------------------------------------------------------
(* _calc_diff and _calc_ratio.  A ratio is the exact fraction num/den;      *)
(* is_int says whether the areas are Python 2 ints, whose / is floor        *)
(* division, or floats.                                                     *)

Min(a, b) == IF a <= b THEN a ELSE b
Max(a, b) == IF a >= b THEN a ELSE b
Abs(a) == IF a >= 0 THEN a ELSE 0 - a

\* Python's x // y for y # 0
FloorDiv(x, y) == IF y > 0 THEN x \div y ELSE (0 - x) \div (0 - y)

_calc_diff(a, b) == Abs(a - b)

_calc_ratio(a, b, is_int) ==
    IF a = 0 /\ b = 0
    THEN [exc |-> "None", num |-> 0, den |-> 1]
    ELSE IF Max(a, b) = 0
    THEN [exc |-> "ZeroDivisionError", num |-> 0, den |-> 1]
    ELSE IF is_int
    THEN [exc |-> "None", num |-> 1 - FloorDiv(Min(a, b), Max(a, b)), den |-> 1]
    ELSE [exc |-> "None", num |-> Max(a, b) - Min(a, b), den |-> Max(a, b)]

----------------------------------------------------------------------------
(* build_names and build_reverse_cmap. *)

\* build_names keeping font A's names instead of the shared ones
build_names_keeps_a(s) ==
    IF s.has_names
    THEN s
    ELSE [s EXCEPT
             !.stats.unmatched =
                 IF fonts[1] # fonts[2]
                 THEN Append(@, <<basepath, fonts[1] \ fonts[2], fonts[2] \ fonts[1]>>)
                 ELSE @,
             !.names = fonts[1],
             !.has_names = TRUE]

\* build_names without its hasattr guard
build_names_unguarded(s) ==
    [s EXCEPT
        !.stats.unmatched =
            IF fonts[1] # fonts[2]
            THEN Append(@, <<basepath, fonts[1] \ fonts[2], fonts[2] \ fonts[1]>>)
            ELSE @,
        !.names = fonts[1] \cap fonts[2],
        !.has_names = TRUE]

build_names(s) ==
    IF s.has_names
    THEN s
    ELSE LET names_a == fonts[1]
             names_b == fonts[2]
         IN  [s EXCEPT
                 !.stats.unmatched =
                     IF names_a # names_b
                     THEN Append(@, <<basepath, names_a \ names_b, names_b \ names_a>>)
                     ELSE @,
                 !.names = names_a \cap names_b,
                 !.has_names = TRUE]

\* the dict `mismatched` of build_reverse_cmap: name -> <<unival_a, unival_b>>
MismatchedUnivals(shared, reverse_cmaps) ==
    {<<n, <<Get(reverse_cmaps[1], n), Get(reverse_cmaps[2], n)>>>> :
        n \in {m \in shared : Get(reverse_cmaps[1], m) # Get(reverse_cmaps[2], m)}}

\* build_reverse_cmap returning font A's map for every shared name,
\* mismatched or not
build_reverse_cmap_keeps_mismatched(s, reverse_cmaps, order) ==
    IF s.has_reverse_cmap
    THEN s
    ELSE IF ~s.has_names
    THEN [s EXCEPT !.exc = "AttributeError"]
    ELSE LET mismatched == MismatchedUnivals(s.names, reverse_cmaps)
             items == [i \in 1..Len(order) |->
                          <<order[i], Lookup(mismatched, order[i])>>]
         IN  [s EXCEPT
                 !.stats.unicode_mismatch =
                     IF mismatched # {}
                     THEN Append(@, <<basepath, items>>)
                     ELSE @,
                 !.reverse_cmap = {p \in reverse_cmaps[1] : p[1] \in s.names},
                 !.has_reverse_cmap = TRUE]

\* order: the order in which mismatched.items() lists the dict
build_reverse_cmap(s, reverse_cmaps, order) ==
    IF s.has_reverse_cmap
    THEN s
    ELSE IF ~s.has_names
    THEN [s EXCEPT !.exc = "AttributeError"]
    ELSE LET mismatched == MismatchedUnivals(s.names, reverse_cmaps)
             items == [i \in 1..Len(order) |->
                          <<order[i], Lookup(mismatched, order[i])>>]
         IN  [s EXCEPT
                 !.stats.unicode_mismatch =
                     IF mismatched # {}
                     THEN Append(@, <<basepath, items>>)
                     ELSE @,
                 !.reverse_cmap =
                     {p \in reverse_cmaps[1] :
                         p[1] \in s.names /\ p[1] \notin Keys(mismatched)},
                 !.has_reverse_cmap = TRUE]

\* what hb_input.build_reverse_cmap can return for the two fonts of s, when
\* build_reverse_cmap gets as far as calling it and using the result
CmapInputs(s, codepoints) ==
    IF s.has_reverse_cmap \/ ~s.has_names
    THEN {<<{}, {}>>}
    ELSE Dicts(fonts[1], codepoints) \X Dicts(fonts[2], codepoints)

MismatchOrders(s, reverse_cmaps) ==
    IF s.has_reverse_cmap \/ ~s.has_names
    THEN {<<>>}
    ELSE Orders(Keys(MismatchedUnivals(s.names, reverse_cmaps)))

----------------------------------------------------------------------------
(* find_area_diffs. *)

\* the dict `mismatched` of find_area_diffs
MismatchedAreas(areas) == {p \in areas : p[2][1] # p[2][2]}

\* order: the order in which mismatched.items() lists the dict.  The first
\* iteration of the appending loop evaluates calc(areas) and then the
\* undefined name `area`, so it raises before anything is appended.
find_area_diffs(s0, areas, order) ==
    LET s == build_names(s0)
        first == Lookup(areas, order[1])
        ratio == _calc_ratio(first[1], first[2], FALSE)
    IN  IF order = <<>>
        THEN s
        ELSE IF ratio_diffs /\ ratio.exc # "None"
        THEN [s EXCEPT !.exc = ratio.exc]
        ELSE [s EXCEPT !.exc = "NameError"]

----------------------------------------------------------------------------
(* find_rendered_diffs.                                                     *)
(*                                                                          *)
(* For one glyph name the outside world decides: hb, what the two           *)
(* HbInputGenerators return ("none": None from both; "nul": the null        *)
(* character from both; "text": the same usable input from both;            *)
(* "mismatch": different results); tool, which external tool failed, if     *)
(* any; metric, the number the comparator prints when it works.             *)

HbKinds == {"none", "nul", "text", "mismatch"}

GlyphInputs ==
    {[hb |-> k, tool |-> "ok", metric |-> 0] : k \in HbKinds \ {"text"}}
    \cup {[hb |-> "text", tool |-> t, metric |-> m] :
            t \in {"ok", "shaper_a_failed", "shaper_b_failed"}, m \in Metrics}
    \cup {[hb |-> "text", tool |-> t, metric |-> 0] :
            t \in {"identify_failed", "compare_silent", "compare_garbled"}}

\* what the comparator leaves on stderr when it cannot report a number
Garbled == "compare: error"

\* int(diff): the lines that parse, and their value
IsInt(line) == \E m \in Metrics : ToString(m) = line
IntOf(line) == CHOOSE m \in Metrics : ToString(m) = line

\* the state of the per-glyph loop: what a_png and b_png hold (the name of
\* the glyph last rasterized into them, or "empty" as mkstemp left them),
\* the lines of diffs_filename, the stats, the glyphs the tools ran for
LoopStart(s) ==
    [s |-> s, a_png |-> "empty", b_png |-> "empty", log |-> <<>>,
     invoked |-> {}]

\* process_glyph skipping an unreachable glyph without recording it
process_glyph_drops_untested(st, name, g) ==
    IF g.hb = "mismatch"
    THEN [st EXCEPT !.s.exc = "AssertionError"]
    ELSE IF g.hb \in {"none", "nul"}
    THEN st
    ELSE LET a == IF g.tool = "shaper_a_failed" THEN st.a_png ELSE name
             b == IF g.tool = "shaper_b_failed" THEN st.b_png ELSE name
             shaped == [st EXCEPT !.log = Append(@, name),
                                  !.invoked = @ \cup {name},
                                  !.a_png = a, !.b_png = b]
             out == IF g.tool = "compare_silent"
                    THEN <<>>
                    ELSE IF g.tool = "compare_garbled" \/ b = "empty"
                    THEN <<Garbled>>
                    ELSE <<ToString(g.metric)>>
         IN  IF a = "empty" \/ g.tool = "identify_failed"
             THEN [shaped EXCEPT !.s.exc = "CalledProcessError"]
             ELSE [shaped EXCEPT !.log = @ \o out]

\* one iteration of the loop over ordered_names (lines 95-143)
process_glyph(st, name, g) ==
    IF g.hb = "mismatch"
    THEN [st EXCEPT !.s.exc = "AssertionError"]
    ELSE IF g.hb = "none"
    THEN [st EXCEPT !.s.stats.untested = Append(@, name)]
    ELSE IF g.hb = "nul"
    THEN st
    ELSE LET a == IF g.tool = "shaper_a_failed" THEN st.a_png ELSE name
             b == IF g.tool = "shaper_b_failed" THEN st.b_png ELSE name
             shaped == [st EXCEPT !.log = Append(@, name),
                                  !.invoked = @ \cup {name},
                                  !.a_png = a, !.b_png = b]
             out == IF g.tool = "compare_silent"
                    THEN <<>>
                    ELSE IF g.tool = "compare_garbled" \/ b = "empty"
                    THEN <<Garbled>>
                    ELSE <<ToString(g.metric)>>
         IN  IF a = "empty" \/ g.tool = "identify_failed"
             THEN [shaped EXCEPT !.s.exc = "CalledProcessError"]
             ELSE [shaped EXCEPT !.log = @ \o out]

RECURSIVE render_loop(_, _, _, _)
render_loop(st, ordered_names, glyphs, i) ==
    IF i > Len(ordered_names) \/ st.s.exc # "None"
    THEN st
    ELSE render_loop(
             process_glyph(st, ordered_names[i], Lookup(glyphs, ordered_names[i])),
             ordered_names, glyphs, i + 1)

\* diffs: the log read pairwise (lines 145-148)
Diffs(lines) == [i \in 1..(Len(lines) \div 2) |-> <<lines[2 * i - 1], lines[2 * i]>>]

\* MismatchedDiffs without the test for a zero metric
MismatchedDiffs_keeps_zero(diffs) ==
    LET hits(n) == {i \in 1..Len(diffs) : diffs[i][1] = n}
        latest(n) == CHOOSE i \in hits(n) : \A j \in hits(n) : j <= i
    IN  {<<n, IntOf(diffs[latest(n)][2])>> : n \in {diffs[i][1] : i \in 1..Len(diffs)}}

\* the dict `mismatched` of find_rendered_diffs (lines 155-158): a later
\* non-zero entry for a name replaces an earlier one
MismatchedDiffs(diffs) ==
    LET hits(n) == {i \in 1..Len(diffs) : diffs[i][1] = n /\ IntOf(diffs[i][2]) # 0}
        latest(n) == CHOOSE i \in hits(n) : \A j \in hits(n) : j <= i
    IN  {<<n, IntOf(diffs[latest(n)][2])>> :
            n \in {diffs[i][1] : i \in {j \in 1..Len(diffs) : hits(diffs[j][1]) # {}}}}

\* the appending loop (lines 160-162); order lists mismatched.items()
CompareRecords(mismatched, order) ==
    [i \in 1..Len(order) |-> <<Lookup(mismatched, order[i]), order[i], basepath>>]

\* the part of find_rendered_diffs after the reconciliation calls: the result
\* is the finder and stats, the temporary files left, the log and the glyphs
\* the tools ran for.  mismatched is the dict of lines 155-158, {} when the
\* call does not get that far.
render(s, ordered_names, glyphs) ==
    LET st == render_loop(LoopStart(s), ordered_names, glyphs, 1)
        lines == st.log
        diffs == Diffs(lines)
        done(exc, tmp, mismatched) ==
            [s |-> [st.s EXCEPT !.exc = exc], tmp |-> tmp, log |-> lines,
             invoked |-> st.invoked, mismatched |-> mismatched]
    IN  IF st.s.exc # "None"
        THEN done(st.s.exc, TmpPaths, {})
        ELSE IF Len(lines) % 2 = 1
        THEN done("IndexError", TmpPaths, {})
        ELSE IF \E i \in 1..Len(diffs) : ~IsInt(diffs[i][2])
        THEN done("ValueError", {}, {})
        ELSE done("None", {}, MismatchedDiffs(diffs))

\* the whole method; cmaps and cmap_order feed build_reverse_cmap, order
\* lists the final mismatched.items()
find_rendered_diffs(s0, cmaps, cmap_order, ordered_names, glyphs, order) ==
    LET s1 == build_reverse_cmap(build_names(s0), cmaps, cmap_order)
        r == render(s1, ordered_names, glyphs)
    IN  [r EXCEPT !.s.stats.compared = @ \o CompareRecords(r.mismatched, order)]

----------------------------------------------------------------------------
(* The driver's calls.  Each action takes the sets its inputs are drawn     *)
(* from, so that a specification chooses how rich each kind of input is.    *)

Init ==
    /\ finder = 0
    /\ fonts = <<{}, {}>>
    /\ ratio_diffs = FALSE
    /\ has_names = FALSE
    /\ names = {}
    /\ has_reverse_cmap = FALSE
    /\ reverse_cmap = {}
    /\ stats = EmptyStats
    /\ ncalls = 0
    /\ last = NoCall

\* a method call on the live finder: what every call records
Called(op, s) ==
    [NoCall EXCEPT !.op = op, !.exc = s.exc, !.before = stats,
                   !.built_names = ~has_names /\ s.has_names,
                   !.built_cmap = ~has_reverse_cmap /\ s.has_reverse_cmap]

CanCall == finder > 0 /\ ncalls < MaxCalls

\* ShapeDiffFinder(file_a, file_b, stats, ratio_diffs), lines 43-54, for
\* fonts whose glyph names are in glyph_names
Construct(glyph_names) ==
    /\ finder < MaxFinders
    /\ \E names_a \in SUBSET glyph_names, names_b \in SUBSET glyph_names,
          ratio \in BOOLEAN :
        /\ fonts' = <<names_a, names_b>>
        /\ ratio_diffs' = ratio
    /\ finder' = finder + 1
    /\ has_names' = FALSE
    /\ names' = {}
    /\ has_reverse_cmap' = FALSE
    /\ reverse_cmap' = {}
    /\ stats' = EmptyStats
    /\ last' = [NoCall EXCEPT !.op = "__init__"]
    /\ UNCHANGED ncalls

BuildNames ==
    /\ CanCall
    /\ LET s == build_names(Self)
       IN  /\ Commit(s)
           /\ last' = Called("build_names", s)
    /\ ncalls' = ncalls + 1
    /\ UNCHANGED <<finder, fonts, ratio_diffs>>

BuildReverseCmap(codepoints) ==
    /\ CanCall
    /\ \E cmaps \in CmapInputs(Self, codepoints) :
       \E order \in MismatchOrders(Self, cmaps) :
          LET s == build_reverse_cmap(Self, cmaps, order)
          IN  /\ Commit([s EXCEPT !.exc = "None"])
              /\ last' = [Called("build_reverse_cmap", s) EXCEPT !.cmaps = cmaps]
    /\ ncalls' = ncalls + 1
    /\ UNCHANGED <<finder, fonts, ratio_diffs>>

FindAreaDiffs(area_values) ==
    /\ CanCall
    /\ \E areas \in TotalDicts(build_names(Self).names, area_values \X area_values) :
       \E order \in Orders(Keys(MismatchedAreas(areas))) :
          LET s == find_area_diffs(Self, areas, order)
          IN  /\ Commit([s EXCEPT !.exc = "None"])
              /\ last' = [Called("find_area_diffs", s) EXCEPT !.areas = areas]
    /\ ncalls' = ncalls + 1
    /\ UNCHANGED <<finder, fonts, ratio_diffs>>

FindRenderedDiffs(codepoints, glyph_inputs) ==
    /\ CanCall
    /\ LET s1 == build_names(Self)
       IN  \E cmaps \in CmapInputs(s1, codepoints) :
           \E cmap_order \in MismatchOrders(s1, cmaps) :
           \E ordered_names \in Orders(s1.names) :
           \E glyphs \in TotalDicts(s1.names, glyph_inputs) :
              LET s2 == build_reverse_cmap(s1, cmaps, cmap_order)
                  r0 == render(s2, ordered_names, glyphs)
              IN  \E order \in Orders(Keys(r0.mismatched)) :
                     LET r == find_rendered_diffs(Self, cmaps, cmap_order,
                                                  ordered_names, glyphs, order)
                     IN  /\ Commit([r.s EXCEPT !.exc = "None"])
                         /\ last' = [Called("find_rendered_diffs", r.s) EXCEPT
                                        !.cmaps = cmaps, !.glyphs = glyphs,
                                        !.order = ordered_names,
                                        !.log = r.log, !.invoked = r.invoked,
                                        !.tmp = r.tmp]
    /\ ncalls' = ncalls + 1
    /\ UNCHANGED <<finder, fonts, ratio_diffs>>

----------------------------------------------------------------------------
(* Spec: a session of any calls on fonts with a single glyph name.          *)

OneName == {"a"}

Next ==
    \/ Construct(OneName)
    \/ BuildNames
    \/ BuildReverseCmap(Codepoints)
    \/ FindAreaDiffs(Areas)
    \/ FindRenderedDiffs(Codepoints, GlyphInputs)

Spec == Init /\ [][Next]_vars

(* SpecReconcile: reconciliation and area diffs on fonts with two names.    *)

NextReconcile ==
    \/ Construct(Names)
    \/ BuildNames
    \/ BuildReverseCmap(Codepoints)
    \/ FindAreaDiffs(Areas)

SpecReconcile == Init /\ [][NextReconcile]_vars

(* SpecRender: the driver renders each font pair once, as its first call    *)
(* on the pair's finder; the fonts have two names and one codepoint.        *)

OneCodepoint == {1}

RenderOnce == ~has_names /\ FindRenderedDiffs(OneCodepoint, GlyphInputs)

NextRender ==
    \/ Construct(Names)
    \/ RenderOnce

SpecRender == Init /\ [][NextRender]_vars

----------------------------------------------------------------------------
(* SpecRatio: _calc_ratio as a function of its arguments.                   *)

SignedAreas == (0 - MaxAbsArea)..MaxAbsArea

InitRatio ==
    /\ finder = 0
    /\ fonts = <<{}, {}>>
    /\ ratio_diffs = TRUE
    /\ has_names = FALSE
    /\ names = {}
    /\ has_reverse_cmap = FALSE
    /\ reverse_cmap = {}
    /\ stats = EmptyStats
    /\ ncalls = 0
    /\ \E a \in SignedAreas, b \in SignedAreas, is_int \in BOOLEAN :
          last = [NoCall EXCEPT !.op = "vals", !.args = <<a, b, is_int>>,
                                !.ret = [exc |-> "None", num |-> 0, den |-> 1]]

CalcRatio ==
    /\ last.op = "vals"
    /\ LET r == _calc_ratio(last.args[1], last.args[2], last.args[3])
       IN  last' = [last EXCEPT !.op = "_calc_ratio", !.exc = r.exc, !.ret = r]
    /\ UNCHANGED <<finder, fonts, ratio_diffs, has_names, names,
                   has_reverse_cmap, reverse_cmap, stats, ncalls>>

SpecRatio == InitRatio /\ [][CalcRatio]_vars

----------------------------------------------------------------------------
(* dump.  A line of the report is the format string's name and the values   *)
(* formatted into it.  Python orders the stats tuples lexicographically;    *)
(* glyph names are ordered as strings.                                      *)

Alphabet == <<"a", "b">>
NameOrd(n) == CHOOSE i \in 1..Len(Alphabet) : Alphabet[i] = n

\* t1 < t2 for two records (metric, name, basepath) of stats['compared']
RecordLess(t1, t2) ==
    \/ t1[1] < t2[1]
    \/ t1[1] = t2[1] /\ NameOrd(t1[2]) < NameOrd(t2[2])
    \/ t1[1] = t2[1] /\ t1[2] = t2[2] /\ t1[3] < t2[3]

\* the pairs of positions <<i, j>> of s with s[i] < s[j], for names
NamesBefore(s) ==
    {ij \in (1..Len(s)) \X (1..Len(s)) : NameOrd(s[ij[1]]) < NameOrd(s[ij[2]])}

\* the same for the (name, univals) items of a mismatch entry
ItemsBefore(s) ==
    {ij \in (1..Len(s)) \X (1..Len(s)) : NameOrd(s[ij[1]][1]) < NameOrd(s[ij[2]][1])}

\* the same for records
RecordsBefore(s) ==
    {ij \in (1..Len(s)) \X (1..Len(s)) : RecordLess(s[ij[1]], s[ij[2]])}

\* sorted(s), where before holds the pairs of positions <<i, j>> with
\* s[i] < s[j]: Python's sort is stable
Sorted(s, before) ==
    LET p == CHOOSE q \in Orders(1..Len(s)) :
                 \A i, j \in 1..Len(s) :
                     i < j => /\ <<q[j], q[i]>> \notin before
                              /\ (<<q[i], q[j]>> \notin before => q[i] < q[j])
    IN  [i \in 1..Len(s) |-> s[p[i]]]

Reverse(s) == [i \in 1..Len(s) |-> s[Len(s) + 1 - i]]

\* [x for x in s if ...], where idx holds the positions of s that pass
Filter(s, idx) ==
    LET kth(k) == CHOOSE i \in idx : Cardinality({j \in idx : j <= i}) = k
    IN  [k \in 1..Cardinality(idx) |-> s[kth(k)]]

\* the positions of the records whose name is not in whitelist
NotWhitelisted(compared, whitelist) ==
    {i \in 1..Len(compared) : compared[i][2] \notin whitelist}

\* s[:n] for n >= 0
Take(s, n) == SubSeq(s, 1, Min(n, Len(s)))

SetToSortedSeq(S) ==
    LET s == CHOOSE o \in Orders(S) : TRUE
    IN  Sorted(s, NamesBefore(s))

\* ('0x%04X' % v) if v else str(v), for an optional codepoint below 16
Hex(v) ==
    IF v = {} THEN "None"
    ELSE "0x000" \o ToString(CHOOSE c \in v : TRUE)

\* the row of one record (lines 220-226): the values handed to fmt, whose
\* number of placeholders must be the number of values
Row(line, include_vals, multiple_fonts) ==
    LET placeholders == 2 + (IF include_vals THEN 2 ELSE 0)
                          + (IF multiple_fonts THEN 1 ELSE 0)
        reordered == <<line[3], line[2], line[1]>> \o SubSeq(line, 4, Len(line))
        values == IF multiple_fonts THEN reordered ELSE Tail(reordered)
    IN  [exc |-> IF Len(values) = placeholders THEN "None" ELSE "TypeError",
         fmt |-> "row", args |-> values]

\* lines 229-245: the sections after the diff section
Sections(st) ==
    LET untested == Sorted(st.untested, NamesBefore(st.untested))
        unmatched(e) ==
            <<[fmt |-> "Glyph coverage doesn't match in %s", args |-> <<e[1]>>],
              [fmt |-> "  in A but not B: %s", args |-> <<SetToSortedSeq(e[2])>>],
              [fmt |-> "  in B but not A: %s", args |-> <<SetToSortedSeq(e[3])>>]>>
        mismatch(item) ==
            [fmt |-> "  %s: %s in A, %s in B",
             args |-> <<item[1], Hex(item[2][1]), Hex(item[2][2])>>]
        unicode(e) ==
            <<[fmt |-> "Glyph unicode values don't match in %s", args |-> <<e[1]>>]>>
            \o LET items == Sorted(e[2], ItemsBefore(e[2]))
               IN  [i \in 1..Len(items) |-> mismatch(items[i])]
        blank == <<[fmt |-> "", args |-> <<>>]>>
        Flat(s, f(_)) ==
            LET RECURSIVE go(_)
                go(i) == IF i > Len(s) THEN <<>> ELSE f(s[i]) \o go(i + 1)
            IN  go(1)
    IN  [i \in 1..Len(untested) |->
            [fmt |-> "not tested (unreachable?): %s", args |-> <<untested[i]>>]]
        \o blank
        \o Flat(st.unmatched, unmatched)
        \o blank
        \o Flat(st.unicode_mismatch, unicode)
        \o blank

\* dump(stats, whitelist, out_lines, include_vals, multiple_fonts), out_lines >= 0
dump(st, whitelist, out_lines, include_vals, multiple_fonts) ==
    LET kept == Filter(st.compared, NotWhitelisted(st.compared, whitelist))
        compared == Reverse(Sorted(kept, RecordsBefore(kept)))
        shown == Take(compared, out_lines)
        rows == [i \in 1..Len(shown) |-> Row(shown[i], include_vals, multiple_fonts)]
        header == [fmt |-> "%d differences in glyph shape", args |-> <<Len(compared)>>]
    IN  IF \E i \in 1..Len(rows) : rows[i].exc # "None"
        THEN [exc |-> "TypeError", report |-> <<>>]
        ELSE [exc |-> "None",
              report |-> <<header>>
                         \o [i \in 1..Len(rows) |-> [fmt |-> "row", args |-> rows[i].args]]
                         \o <<[fmt |-> "", args |-> <<>>]>>
                         \o Sections(st)]

----------------------------------------------------------------------------
(* SpecDump: dump on the stats a session of rendered diffs can leave.       *)

RenderedRecords == (1..MaxSeverity) \X Names \X (1..MaxFinders)

SeqsUpTo(S, n) == UNION {[1..k -> S] : k \in 0..n}

OtherLogs ==
    {[untested |-> <<>>, unmatched |-> <<>>, unicode_mismatch |-> <<>>],
     [untested |-> <<"b", "a">>,
      unmatched |-> <<<<1, {"a", "b"}, {}>>>>,
      unicode_mismatch |-> <<<<1, <<<<"b", <<{1}, {}>>>>, <<"a", <<{1}, {2}>>>>>>>>>>]}

InitDump ==
    /\ finder = 0
    /\ fonts = <<{}, {}>>
    /\ ratio_diffs = FALSE
    /\ has_names = FALSE
    /\ names = {}
    /\ has_reverse_cmap = FALSE
    /\ reverse_cmap = {}
    /\ ncalls = 0
    /\ \E compared \in SeqsUpTo(RenderedRecords, MaxRecords), other \in OtherLogs :
          stats = [compared |-> compared, untested |-> other.untested,
                   unmatched |-> other.unmatched,
                   unicode_mismatch |-> other.unicode_mismatch]
    /\ last = [NoCall EXCEPT !.ret = [exc |-> "None", report |-> <<>>]]

Dump ==
    /\ \E whitelist \in SUBSET Names, out_lines \in 0..MaxLines,
          include_vals \in BOOLEAN, multiple_fonts \in BOOLEAN :
          LET r == dump(stats, whitelist, out_lines, include_vals, multiple_fonts)
          IN  last' = [NoCall EXCEPT
                          !.op = "dump", !.exc = r.exc, !.before = stats,
                          !.args = <<whitelist, out_lines, include_vals, multiple_fonts>>,
                          !.ret = r]
    /\ UNCHANGED <<finder, fonts, ratio_diffs, has_names, names,
                   has_reverse_cmap, reverse_cmap, stats, ncalls>>

SpecDump == InitDump /\ [][Dump]_vars

----------------------------------------------------------------------------
(* The claims.                                                              *)

\* what the latest call appended to a log of stats
Added(log) == Suffix(last.before[log], stats[log])

\* C1: when build_names runs (on its own or inside a diff method), the
\* shared glyph set becomes NamesA \cap NamesB and the call adds to
\* 'unmatched' the one entry (label, NamesA - NamesB, NamesB - NamesA) if
\* NamesA # NamesB and nothing otherwise; on a log that was empty, the log
\* is then non-empty iff NamesA # NamesB.
C1_BuildNames ==
    last.built_names =>
        /\ has_names
        /\ names = fonts[1] \cap fonts[2]
        /\ IsPrefix(last.before.unmatched, stats.unmatched)
        /\ Added("unmatched") =
               IF fonts[1] # fonts[2]
               THEN <<<<basepath, fonts[1] \ fonts[2], fonts[2] \ fonts[1]>>>>
               ELSE <<>>
        /\ last.before.unmatched = <<>> =>
               (stats.unmatched # <<>> <=> fonts[1] # fonts[2])

\* build_names ran on fonts that share a name and differ in another
C1_Witness ==
    /\ last.op = "build_names"
    /\ last.built_names
    /\ names # {}
    /\ fonts[1] \ fonts[2] # {}
    /\ Len(stats.unmatched) = 1

\* C2 as claimed: under the absolute policy find_area_diffs returns normally
\* and appends exactly one record (|areaA - areaB|, name, label, areaA,
\* areaB) per shared glyph whose areas differ, and none for equal areas.
C2_AsClaimed ==
    (last.op = "find_area_diffs" /\ ~ratio_diffs) =>
        /\ last.exc = "None"
        /\ IsPrefix(last.before.compared, stats.compared)
        /\ Len(Added("compared")) = Cardinality(MismatchedAreas(last.areas))
        /\ \A p \in MismatchedAreas(last.areas) :
               Count(Added("compared"),
                     <<_calc_diff(p[2][1], p[2][2]), p[1], basepath,
                       p[2][1], p[2][2]>>) = 1

\* C3 as claimed: for every pair of areas the ratio is defined, lies in
\* [0,1), and is 0 only when both areas are 0.
C3_AsClaimed ==
    last.op = "_calc_ratio" =>
        LET r == last.ret
            positive == r.den > 0
        IN  /\ r.exc = "None"
            /\ IF positive THEN 0 <= r.num /\ r.num < r.den
                           ELSE 0 >= r.num /\ r.num > r.den
            /\ r.num = 0 => (last.args[1] = 0 /\ last.args[2] = 0)

\* the items of the 'unicode_mismatch' entries the latest call appended
AddedMismatchItems ==
    UNION {{<<e, i>> : i \in 1..Len(Added("unicode_mismatch")[e][2])} :
              e \in 1..Len(Added("unicode_mismatch"))}

MismatchItem(at) == Added("unicode_mismatch")[at[1]][2][at[2]]

\* how often the latest call listed name n as a codepoint mismatch
TimesMismatched(n) ==
    Cardinality({at \in AddedMismatchItems : MismatchItem(at)[1] = n})

UnivalA(n) == Get(last.cmaps[1], n)
UnivalB(n) == Get(last.cmaps[2], n)

\* a name the fonts disagree on is not in the map and is listed once, with
\* the pair of codepoints
DisagreementRecorded(n) ==
    /\ n \notin Keys(reverse_cmap)
    /\ TimesMismatched(n) = 1
    /\ \E at \in AddedMismatchItems :
           MismatchItem(at) = <<n, <<UnivalA(n), UnivalB(n)>>>>

\* C4 as claimed: after build_reverse_cmap every shared name on whose
\* codepoint the fonts agree, or that neither maps, is in the reconciled
\* map; every shared name they disagree on is absent from it and listed
\* exactly once in 'unicode_mismatch' with (codepointA, codepointB).
C4_AsClaimed ==
    last.built_cmap =>
        \A n \in names :
            /\ UnivalA(n) = UnivalB(n) => n \in Keys(reverse_cmap)
            /\ UnivalA(n) # UnivalB(n) => DisagreementRecorded(n)

\* C4 amended: a shared name both fonts map to the same codepoint is in the
\* reconciled map with that codepoint; a shared name neither font maps is
\* neither in the map nor listed as a mismatch; a shared name they disagree
\* on is absent from the map and listed exactly once, with both codepoints.
\* The call appends at most one 'unicode_mismatch' entry.
C4_Reconciled ==
    last.built_cmap =>
        /\ has_reverse_cmap
        /\ IsPrefix(last.before.unicode_mismatch, stats.unicode_mismatch)
        /\ Len(Added("unicode_mismatch")) <= 1
        /\ Keys(reverse_cmap) \subseteq names
        /\ \A n \in names :
            /\ (UnivalA(n) = UnivalB(n) /\ UnivalA(n) # {}) =>
                   /\ Get(reverse_cmap, n) = UnivalA(n)
                   /\ TimesMismatched(n) = 0
            /\ (UnivalA(n) = {} /\ UnivalB(n) = {}) =>
                   /\ n \notin Keys(reverse_cmap)
                   /\ TimesMismatched(n) = 0
            /\ UnivalA(n) # UnivalB(n) => DisagreementRecorded(n)

\* build_reverse_cmap ran on a name the fonts agree on and a name they map
\* to two different codepoints
C4_Witness ==
    /\ last.op = "build_reverse_cmap"
    /\ last.built_cmap
    /\ \E n \in names : UnivalA(n) = UnivalB(n) /\ UnivalA(n) # {}
    /\ \E n \in names : UnivalA(n) # {} /\ UnivalB(n) # {} /\ UnivalA(n) # UnivalB(n)

\* C5 as claimed: no step of a session shortens or rewrites a log of stats.
C5_AsClaimed ==
    [][\A log \in LogNames : IsPrefix(stats[log], stats'[log])]_vars

\* the shared glyphs the latest find_rendered_diffs call rendered
Rendered == {p \in last.glyphs : p[2].hb = "text"}

\* the records a normal call owes: one per rendered glyph whose metric is
\* not zero
OwedRecords == {<<p[2].metric, p[1], basepath>> : p \in {q \in Rendered : q[2].metric # 0}}

\* the diff log of a call: per rendered glyph, in processing order, its
\* name line and then its metric line
RECURSIVE ExpectedLog(_)
ExpectedLog(i) ==
    IF i = 0
    THEN <<>>
    ELSE LET name == last.order[i]
             g == Lookup(last.glyphs, name)
         IN  ExpectedLog(i - 1) \o
                 (IF g.hb = "text" THEN <<name, ToString(g.metric)>> ELSE <<>>)

\* C6: when find_rendered_diffs returns normally, the diff log holds one
\* name line followed by one metric line per rendered glyph, and the call
\* appends to 'compared' exactly one record (metric, name, label) for each
\* rendered glyph whose metric is not zero, each name with the metric
\* produced for that glyph, and no other record.
C6_RenderedRecords ==
    (last.op = "find_rendered_diffs" /\ last.exc = "None") =>
        /\ last.log = ExpectedLog(Len(last.order))
        /\ IsPrefix(last.before.compared, stats.compared)
        /\ Range(Added("compared")) = OwedRecords
        /\ \A r \in OwedRecords : Count(Added("compared"), r) = 1

\* a normal call that rendered one glyph with a non-zero metric and one
\* with a zero metric
C6_Witness ==
    /\ last.op = "find_rendered_diffs"
    /\ last.exc = "None"
    /\ \E p \in Rendered : p[2].metric # 0
    /\ \E p \in Rendered : p[2].metric = 0
    /\ Len(Added("compared")) = 1

\* the shared glyphs for which the latest call found no shaping input
Unreachable == {p[1] : p \in {q \in last.glyphs : q[2].hb = "none"}}

\* the latest call did nothing for glyph n but note it
OnlyNoted(n) ==
    /\ \A i \in 1..Len(Added("compared")) : Added("compared")[i][2] # n
    /\ n \notin last.invoked
    /\ n \notin Range(last.log)

C8_AsClaimed ==
    last.op = "find_rendered_diffs" => last.tmp = {}

\* the compared records dump was given whose name is not in the whitelist
Shown ==
    LET kept == {i \in 1..Len(last.before.compared) :
                    last.before.compared[i][2] \notin last.args[1]}
    IN  Filter(last.before.compared, kept)

\* the name and the metric a row of the report prints
RowName(row) == IF last.args[4] THEN row.args[2] ELSE row.args[1]
RowMetric(row) == IF last.args[4] THEN row.args[3] ELSE row.args[2]

\* C9 as claimed: for every stats content, dump returns a report whose
\* first line counts the compared records whose name is not in the
\* whitelist, followed by rows for exactly the first min(out_lines, count)
\* of those records by non-increasing metric, and by no other row.
C9_AsClaimed ==
    last.op = "dump" =>
        LET out_lines == last.args[2]
            report == last.ret.report
            rows == Min(out_lines, Len(Shown))
        IN  /\ last.ret.exc = "None"
            /\ Len(report) >= 1 + rows
            /\ report[1] = [fmt |-> "%d differences in glyph shape",
                            args |-> <<Len(Shown)>>]
            /\ \A i \in 2..Len(report) : report[i].fmt = "row" <=> i <= 1 + rows
            /\ \E ranked \in Orders(1..Len(Shown)) :
                   /\ \A i, j \in 1..Len(Shown) :
                          i < j => Shown[ranked[i]][1] >= Shown[ranked[j]][1]
                   /\ \A i \in 1..rows :
                          /\ RowName(report[1 + i]) = Shown[ranked[i]][2]
                          /\ RowMetric(report[1 + i]) = Shown[ranked[i]][1]

\* C10: on one finder, once the shared glyph set is built no later call
\* changes it or adds to 'unmatched', and once the reconciled map is built
\* no later call changes it or adds to 'unicode_mismatch'; the call that
\* builds either adds at most one entry to the matching log, so a finder
\* contributes at most one 'unmatched' and one 'unicode_mismatch' entry.
C10_Memoized ==
    /\ [](Len(stats.unmatched) <= 1 /\ Len(stats.unicode_mismatch) <= 1)
    /\ [][finder' = finder =>
            /\ has_names =>
                   /\ has_names'
                   /\ names' = names
                   /\ stats'.unmatched = stats.unmatched
            /\ ~has_names =>
                   /\ IsPrefix(stats.unmatched, stats'.unmatched)
                   /\ Len(stats'.unmatched) <= Len(stats.unmatched) + 1
                   /\ ~has_names' => stats'.unmatched = stats.unmatched
            /\ has_reverse_cmap =>
                   /\ has_reverse_cmap'
                   /\ reverse_cmap' = reverse_cmap
                   /\ stats'.unicode_mismatch = stats.unicode_mismatch
            /\ ~has_reverse_cmap =>
                   /\ IsPrefix(stats.unicode_mismatch, stats'.unicode_mismatch)
                   /\ Len(stats'.unicode_mismatch) <= Len(stats.unicode_mismatch) + 1
                   /\ ~has_reverse_cmap' =>
                          stats'.unicode_mismatch = stats.unicode_mismatch]_vars

\* a second find_rendered_diffs call on a finder whose first call had built
\* both and recorded a codepoint mismatch
C10_Witness ==
    /\ ncalls = 2
    /\ last.op = "find_rendered_diffs"
    /\ ~last.built_names
    /\ ~last.built_cmap
    /\ has_names
    /\ has_reverse_cmap
    /\ names # {}
    /\ Len(stats.unicode_mismatch) = 1

\* the rendered glyphs of the latest call for which an external tool failed
Faulted == {p \in Rendered : p[2].tool # "ok"}

\* C11 as claimed: when the two fonts agree on every shaping input, a tool
\* failure on one glyph does not end the run: find_rendered_diffs returns
\* normally, every glyph whose tools all worked and whose metric is not zero
\* has its record in 'compared', and no record is appended for a glyph whose
\* shaper, geometry inspection or comparator failed.
C11_AsClaimed ==
    (/\ last.op = "find_rendered_diffs"
     /\ \A p \in last.glyphs : p[2].hb # "mismatch") =>
        /\ last.exc = "None"
        /\ \A p \in Rendered \ Faulted :
               p[2].metric # 0 =>
                   Count(Added("compared"), <<p[2].metric, p[1], basepath>>) = 1
        /\ \A p \in Faulted :
               \A i \in 1..Len(Added("compared")) : Added("compared")[i][2] # p[1]

====
